---- MODULE Spec2Model ----
(***************************************************************************)
(* Model of src/features/score_verify.py: the score repairer               *)
(* (get_invalid_score_changes, fix_scores), the drive reconciler           *)
(* (get_drive_counts, get_pbp_drives, get_dc_drives, get_missing_drives)   *)
(* and the scoreboard cross-checker (compare_pbp_matchup,                  *)
(* nonzero_score_diffs).                                                   *)
(*                                                                         *)
(* A DataFrame is a sequence of records; the play-by-play table carries    *)
(* the default RangeIndex, so the row labelled i is element i+1 of the     *)
(* sequence.  A nullable cell is <<>> (NaN) or <<v>>.                      *)
(***************************************************************************)
EXTENDS Integers, Sequences, FiniteSets, TLC

\* pbp, drives, matchup: the three tables.  stage: "load" while the loader
\* still appends rows, then the outcome of the one function called on them.
\* inputs: the pbp argument of each call of fix_scores.  requested: the labels
\* get_invalid_score_changes hands to pbp.loc.  writes: the assignments of the
\* loop of fix_scores.  raised: a KeyError left the call.  report: the frame
\* get_missing_drives returns.  score_diffs, non_zero: the frames of
\* compare_pbp_matchup and nonzero_score_diffs.
VARIABLES pbp, drives, matchup, stage, inputs, requested, writes, raised, report, score_diffs, non_zero

vars == <<pbp, drives, matchup, stage, inputs, requested, writes, raised, report, score_diffs, non_zero>>

\* ------------------------------------------------------------------ bounds
MaxPlays == 6
MaxRows == 3
MaxBoardPlays == 5

Games == {1, 2}
HomeScores == {0, 4, 6}
AwayScores == {0, 1}

\* ------------------------------------------------------------- null cells
NaN == <<>>
Some(v) == <<v>>

\* ------------------------------------------------------------ the tables
home_team(g) == IF g = 1 THEN "A" ELSE "B"
away_team(g) == IF g = 1 THEN "B" ELSE "A"

Play(g, off, d, pt, q, hs, as) ==
  [id |-> g, week |-> 1, offense |-> off, home_team |-> home_team(g),
   away_team |-> away_team(g), drive_id |-> d, play_type |-> pt, period |-> q,
   home_score |-> hs, away_score |-> as]

Rows(p) == 0 .. (Len(p) - 1)
At(p, i) == p[i + 1]
Range(s) == {s[k] : k \in 1 .. Len(s)}
SetMax(S) == CHOOSE x \in S : \A y \in S : y <= x
SetMin(S) == CHOOSE x \in S : \A y \in S : x <= y

\* =================================================== the score repairer ==
num_plays == 5
ValidDeltas == {0, 2, 3, 6, 7, 8}

\* pbp.loc[pbp["id"] == game].index[-1] for game in pbp["id"].unique()
ends_of_games(p) ==
  {SetMax({i \in Rows(p) : At(p, i).id = g}) : g \in {p[k].id : k \in 1 .. Len(p)}}

\* pbp.home_score.diff().isin([0, 2, 3, 6, 7, 8]); the diff of row 0 is NaN
home_diff_valid(p, i) == i > 0 /\ (At(p, i).home_score - At(p, i - 1).home_score) \in ValidDeltas
away_diff_valid(p, i) == i > 0 /\ (At(p, i).away_score - At(p, i - 1).away_score) \in ValidDeltas

\* the row masks of pbp.loc[~(...diff().isin(...)) & (pbp.home_score != 0)]
home_scores_to_check(p, i) == ~home_diff_valid(p, i) /\ At(p, i).home_score # 0
away_scores_to_check(p, i) == ~away_diff_valid(p, i) /\ At(p, i).away_score # 0

\* home_scores_to_check.append(away_scores_to_check).sort_index().index: a row
\* flagged on both sides occurs twice
RECURSIVE scores_to_check(_, _)
scores_to_check(p, i) ==
  IF i >= Len(p) THEN <<>>
  ELSE (IF home_scores_to_check(p, i) THEN <<i>> ELSE <<>>)
       \o (IF away_scores_to_check(p, i) THEN <<i>> ELSE <<>>)
       \o scores_to_check(p, i + 1)

scores_index(p) ==
  LET ends == ends_of_games(p)
  IN  SelectSeq(scores_to_check(p, 0),
                LAMBDA item : (item - 1) \notin ends /\ item \notin ends)

Window(item) == <<item - 1, item, item + 1, item + 2, item + 3>>

\* list(chain(*zip(...))): the labels handed to pbp.loc
RECURSIVE chain(_)
chain(idx) == IF idx = <<>> THEN <<>> ELSE Window(Head(idx)) \o chain(Tail(idx))

get_invalid_score_changes(p) == chain(scores_index(p))

\* Series.mode()[0]: the values of highest count, sorted ascending, the first
Count(vals, v) == Cardinality({k \in 1 .. Len(vals) : vals[k] = v})
Modes(vals) == {v \in Range(vals) : \A w \in Range(vals) : Count(vals, w) <= Count(vals, v)}
\* faulty variant: the most frequent value met first in row order
ModeFirstSeen(vals) == vals[SetMin({k \in 1 .. Len(vals) : vals[k] \in Modes(vals)})]
Mode(vals) == SetMin(Modes(vals))

\* scores_to_fix.iloc[n * num_plays : (n * num_plays) + num_plays].index.tolist()
ChunkLabels(labs, n) ==
  SubSeq(labs, n * num_plays + 1,
         IF n * num_plays + num_plays < Len(labs) THEN n * num_plays + num_plays ELSE Len(labs))

NumChunks(labs) == (Len(labs) + num_plays - 1) \div num_plays

\* the chunk's rows of the candidate frame (rows of labels the table lacks
\* are all-NaN and mode() drops them)
ChunkRows(p, labs, n) == SelectSeq(ChunkLabels(labs, n), LAMBDA l : l \in Rows(p))
HomeValues(p, labs, n) ==
  LET rows == ChunkRows(p, labs, n) IN [k \in 1 .. Len(rows) |-> At(p, rows[k]).home_score]
AwayValues(p, labs, n) ==
  LET rows == ChunkRows(p, labs, n) IN [k \in 1 .. Len(rows) |-> At(p, rows[k]).away_score]

home_modes(p, labs, n) == Mode(HomeValues(p, labs, n))
away_modes(p, labs, n) == Mode(AwayValues(p, labs, n))

Missing(p, labs) == {n \in 0 .. (NumChunks(labs) - 1) : \E l \in Range(ChunkLabels(labs, n)) : l \notin Rows(p)}

\* faulty variant: the write through an end-inclusive label slice, one row too long
SetScoresSlice(p, labels, h, a) ==
  [k \in 1 .. Len(p) |->
     IF labels # <<>> /\ (k - 1) >= labels[1] /\ (k - 1) <= labels[Len(labels)] + 1
     THEN [p[k] EXCEPT !.home_score = h, !.away_score = a] ELSE p[k]]

\* pbp.loc[labels, "home_score"] = home_modes[n]; pbp.loc[labels, "away_score"] = away_modes[n]
SetScores(p, labels, h, a) ==
  [k \in 1 .. Len(p) |->
     IF (k - 1) \in Range(labels) THEN [p[k] EXCEPT !.home_score = h, !.away_score = a] ELSE p[k]]

\* the loop of fix_scores over chunks n .. upto-1; the modes come from the
\* candidate frame src, taken before the first write
RECURSIVE FixLoop(_, _, _, _, _)
FixLoop(p, src, labs, n, upto) ==
  IF n >= upto THEN p
  ELSE FixLoop(SetScores(p, ChunkLabels(labs, n), home_modes(src, labs, n), away_modes(src, labs, n)),
               src, labs, n + 1, upto)

WriteLog(src, labs, upto) ==
  [n \in 1 .. upto |->
     [labels |-> ChunkLabels(labs, n - 1),
      home_score |-> home_modes(src, labs, n - 1),
      away_score |-> away_modes(src, labs, n - 1)]]

\* how .loc treats a list holding a label the index lacks: "strict" raises
\* KeyError on the read in get_invalid_score_changes; "reindex" returns an
\* all-NaN row there and raises KeyError on the first write naming the label
Builds == {"strict", "reindex"}

Init ==
  /\ pbp = <<>>
  /\ drives = <<>>
  /\ matchup = <<>>
  /\ stage = "load"
  /\ inputs = <<>>
  /\ requested = <<>>
  /\ writes = <<>>
  /\ raised = FALSE
  /\ report = <<>>
  /\ score_diffs = <<>>
  /\ non_zero = <<>>

\* the loader hands over one more play of the score columns: games are
\* contiguous, the home score is any of HomeScores, the away score 0 or 1 and
\* never falling
LoadScorePlay ==
  /\ stage = "load"
  /\ Len(pbp) < MaxPlays
  /\ \E g \in Games, hs \in HomeScores, as \in AwayScores :
       /\ IF pbp = <<>> THEN TRUE
          ELSE g >= pbp[Len(pbp)].id /\ as >= pbp[Len(pbp)].away_score
       /\ pbp' = Append(pbp, Play(g, home_team(g), 1, <<"Rush">>, 1, hs, as))
  /\ UNCHANGED <<drives, matchup, stage, inputs, requested, writes, raised, report, score_diffs, non_zero>>

FixScores ==
  /\ stage \in {"load", "fixed"}
  /\ pbp # <<>>
  /\ LET labs == get_invalid_score_changes(pbp)
         miss == Missing(pbp, labs)
     IN  /\ requested' = labs
         /\ inputs' = Append(inputs, pbp)
         /\ IF miss = {}
            THEN /\ pbp' = FixLoop(pbp, pbp, labs, 0, NumChunks(labs))
                 /\ writes' = WriteLog(pbp, labs, NumChunks(labs))
                 /\ raised' = FALSE
                 /\ stage' = IF stage = "load" THEN "fixed" ELSE "refixed"
            ELSE \E build \in Builds :
                 LET upto == IF build = "strict" THEN 0 ELSE SetMin(miss)
                 IN  /\ pbp' = FixLoop(pbp, pbp, labs, 0, upto)
                     /\ writes' = WriteLog(pbp, labs, upto)
                     /\ raised' = TRUE
                     /\ stage' = "raised"
  /\ UNCHANGED <<drives, matchup, report, score_diffs, non_zero>>

NextScore == LoadScorePlay \/ FixScores

SpecScore == Init /\ [][NextScore]_vars

\* ================================================= the drive reconciler ==
DriveIds == {1, 2}
Sides == {"home", "away"}
PlayTypes == {<<"Kickoff">>, <<"Kickoff", "Return", "(Offense)">>, <<"Rush">>}

Drive(g, off, d) ==
  [id |-> g, drive_id |-> d, offense |-> off, home_team |-> home_team(g), away_team |-> away_team(g)]

\* Series.str.contains(word), a play type being a sequence of words
contains(pt, word) == \E k \in 1 .. Len(pt) : pt[k] = word

side_team(r, side) == IF side = "home" THEN r.home_team ELSE r.away_team

\* the ascending keys of groupby("id"), as a sequence
RECURSIVE SortedSeq(_)
SortedSeq(S) == IF S = {} THEN <<>> ELSE <<SetMin(S)>> \o SortedSeq(S \ {SetMin(S)})

\* faulty variant: the mask without the kickoff filter
pbp_mask_all(p, side) ==
  {k \in 1 .. Len(p) : p[k].offense = side_team(p[k], side)}

\* pbp[~(pbp["play_type"].str.contains("Kickoff"))].loc[pbp["offense"] == pbp[f"{side}_team"]]
pbp_mask(p, side) ==
  {k \in 1 .. Len(p) : ~contains(p[k].play_type, "Kickoff") /\ p[k].offense = side_team(p[k], side)}

\* drives.loc[drives["offense"] == drives[f"{side}_team"]]
dc_mask(d, side) == {k \in 1 .. Len(d) : d[k].offense = side_team(d[k], side)}

\* .groupby("id").agg({"drive_id": "unique"}): the group of game g
Unique(t, mask, g) == {<<t[k].drive_id>> : k \in {j \in mask : t[j].id = g}}
Keys(t, mask) == {t[k].id : k \in mask}

get_drive_counts(side, p, d) ==
  LET pm == pbp_mask(p, side)
      dm == dc_mask(d, side)
      keys == SortedSeq(Keys(p, pm))
  IN  [n \in 1 .. Len(keys) |->
         LET g == keys[n]
             pbp_drives == Cardinality(Unique(p, pm, g))
             joined == g \in Keys(d, dm)
             drive_chart_drives == Cardinality(Unique(d, dm, g))
         IN  [id |-> g,
              pbp_drives |-> Some(pbp_drives),
              drive_chart_drives |-> IF joined THEN Some(drive_chart_drives) ELSE NaN,
              difference |-> IF joined THEN Some(pbp_drives - drive_chart_drives) ELSE NaN,
              side |-> side]]

\* faulty variant: get_pbp_drives without the kickoff filter
get_pbp_drives_all(p, side, g) ==
  LET m == {k \in 1 .. Len(p) : p[k].offense = side_team(p[k], side)}
  IN  IF g \in Keys(p, m) THEN Some(Unique(p, m, g)) ELSE NaN

\* the cell of game g in get_pbp_drives(df, side), NaN when a left join finds no row
get_pbp_drives(p, side, g) ==
  LET m == {k \in 1 .. Len(p) : p[k].offense = side_team(p[k], side) /\ ~contains(p[k].play_type, "Kickoff")}
  IN  IF g \in Keys(p, m) THEN Some(Unique(p, m, g)) ELSE NaN

get_dc_drives(d, side, g) ==
  LET m == {k \in 1 .. Len(d) : d[k].offense = side_team(d[k], side)}
  IN  IF g \in Keys(d, m) THEN Some(Unique(d, m, g)) ELSE NaN

\* np.setdiff1d(x, y) on two cells: a NaN cell is the array [nan], and nan is
\* equal to nothing
AsArray(cell) == IF cell = NaN THEN {NaN} ELSE cell[1]
setdiff1d(x, y) == {e \in AsArray(x) : e = NaN \/ e \notin AsArray(y)}
nan_if_empty(x) == IF Cardinality(x) = 0 THEN NaN ELSE Some(x)

side_drive_counts(side, p, d) ==
  LET counts == get_drive_counts(side, p, d)
  IN  [n \in 1 .. Len(counts) |->
         LET pbp_drive_id == get_pbp_drives(p, side, counts[n].id)
             dc_drive_id == get_dc_drives(d, side, counts[n].id)
         IN  [id |-> counts[n].id,
              side |-> side,
              pbp_drives |-> counts[n].pbp_drives,
              drive_chart_drives |-> counts[n].drive_chart_drives,
              difference |-> counts[n].difference,
              pbp_drive_id |-> pbp_drive_id,
              dc_drive_id |-> dc_drive_id,
              extra_pbp_drives |-> nan_if_empty(setdiff1d(pbp_drive_id, dc_drive_id)),
              extra_dc_drives |-> nan_if_empty(setdiff1d(dc_drive_id, pbp_drive_id))]]

get_missing_drives(p, d) == side_drive_counts("home", p, d) \o side_drive_counts("away", p, d)

\* the loader hands over one more play of the drive columns, in game and
\* drive order
LoadDrivePlay ==
  /\ stage = "load"
  /\ Len(pbp) + Len(drives) < MaxRows
  /\ \E g \in Games, side \in Sides, d \in DriveIds, pt \in PlayTypes :
       /\ IF pbp = <<>> THEN TRUE
          ELSE \/ g > pbp[Len(pbp)].id
               \/ g = pbp[Len(pbp)].id /\ d >= pbp[Len(pbp)].drive_id
       /\ pbp' = Append(pbp, Play(g, IF side = "home" THEN home_team(g) ELSE away_team(g), d, pt, 1, 0, 0))
  /\ UNCHANGED <<drives, matchup, stage, inputs, requested, writes, raised, report, score_diffs, non_zero>>

\* the loader hands over one more row of the drive chart
LoadDrive ==
  /\ stage = "load"
  /\ Len(pbp) + Len(drives) < MaxRows
  /\ \E g \in Games, side \in Sides, d \in DriveIds :
       /\ IF drives = <<>> THEN TRUE
          ELSE \/ g > drives[Len(drives)].id
               \/ g = drives[Len(drives)].id /\ d >= drives[Len(drives)].drive_id
       /\ drives' = Append(drives, Drive(g, IF side = "home" THEN home_team(g) ELSE away_team(g), d))
  /\ UNCHANGED <<pbp, matchup, stage, inputs, requested, writes, raised, report, score_diffs, non_zero>>

\* get_missing_drives on tables that give the report at least one row
GetMissingDrives ==
  /\ stage = "load"
  /\ get_missing_drives(pbp, drives) # <<>>
  /\ report' = get_missing_drives(pbp, drives)
  /\ stage' = "reported"
  /\ UNCHANGED <<pbp, drives, matchup, inputs, requested, writes, raised, score_diffs, non_zero>>

NextDrives == LoadDrivePlay \/ LoadDrive \/ GetMissingDrives

SpecDrives == Init /\ [][NextDrives]_vars

\* ========================================== the scoreboard cross-checker ==
BoardScores == {0, 1}
LineScores ==
  {<<Some(0), Some(0), Some(0), Some(0), NaN>>,
   <<Some(1), Some(0), Some(0), Some(0), NaN>>,
   <<Some(0), Some(0), Some(0), Some(0), Some(1)>>}

\* range(1, 6)
first_quarter == 1
last_quarter == 5
Quarters == first_quarter .. last_quarter

Matchup(g, home, away) ==
  [id |-> g, week |-> 1, home_team |-> home_team(g), away_team |-> away_team(g),
   home_line_scores |-> home, away_line_scores |-> away]

Score(r, side) == IF side = "home" THEN r.home_score ELSE r.away_score
Line(m, side) == IF side = "home" THEN m.home_line_scores ELSE m.away_line_scores

\* pbp.loc[pbp["id"] == game, "period"].unique()
game_periods(p, g) == {p[k].period : k \in {j \in 1 .. Len(p) : p[j].id = g}}

\* pbp.loc[(pbp["id"] == game) & (pbp["period"] == period)].index[-1]
period_end(p, g, q) == SetMax({i \in Rows(p) : At(p, i).id = g /\ At(p, i).period = q})

\* the columns pivot_table(columns="period") makes: the periods some game has
pivot_columns(p) == {p[k].period : k \in 1 .. Len(p)}

\* the cell f"{side}_score_q{q}" of game g in pbp_scores
pbp_scores(p, g, side, q) ==
  IF q \in game_periods(p, g) THEN Some(Score(At(p, period_end(p, g, q)), side)) ELSE NaN

\* pbp_scores[[home_score_q1 .. away_score_q5]] raises KeyError on a column
\* the pivot did not make
missing_columns(p) == Quarters \ pivot_columns(p)

RECURSIVE nansum(_, _)
nansum(line, q) ==
  IF q = 0 THEN 0 ELSE (IF line[q] = NaN THEN 0 ELSE line[q][1]) + nansum(line, q - 1)

\* matchup_scores[...].cumsum(axis=1): NaN stays NaN and adds nothing
cum_matchup_scores(m, side, q) ==
  IF Line(m, side)[q] = NaN THEN NaN ELSE Some(nansum(Line(m, side), q))

matchup_rows(mt, g) == {k \in 1 .. Len(mt) : mt[k].id = g}

\* pbp_scores[col] - cum_matchup_scores[col], aligned on the game id
score_diff(p, mt, g, side, q) ==
  IF matchup_rows(mt, g) = {} \/ pbp_scores(p, g, side, q) = NaN THEN NaN
  ELSE LET cum == cum_matchup_scores(mt[SetMin(matchup_rows(mt, g))], side, q)
       IN  IF cum = NaN THEN NaN ELSE Some(pbp_scores(p, g, side, q)[1] - cum[1])

compare_pbp_matchup(p, mt) ==
  LET ids == SortedSeq({p[k].id : k \in 1 .. Len(p)})
  IN  [n \in 1 .. Len(ids) |->
         [id |-> ids[n], week |-> 1, home_team |-> home_team(ids[n]), away_team |-> away_team(ids[n]),
          home_score |-> [q \in Quarters |-> score_diff(p, mt, ids[n], "home", q)],
          away_score |-> [q \in Quarters |-> score_diff(p, mt, ids[n], "away", q)]]]

fillna(cell, v) == IF cell = NaN THEN Some(v) ELSE cell

\* the row filter of nonzero_score_diffs: NaN != 0 is true
is_non_zero(row) ==
  \/ \E q \in first_quarter .. (last_quarter - 1) : row.home_score[q] # Some(0)
  \/ fillna(row.home_score[last_quarter], 0) # Some(0)
  \/ \E q \in first_quarter .. (last_quarter - 1) : row.away_score[q] # Some(0)
  \/ fillna(row.away_score[last_quarter], 0) # Some(0)

nonzero_score_diffs(diffs) == SelectSeq(diffs, is_non_zero)

\* the loader hands over one more play of the period and score columns, in
\* game and period order, the home score never falling within a game
LoadBoardPlay ==
  /\ stage = "load"
  /\ Len(pbp) < MaxBoardPlays
  /\ \E g \in Games, q \in Quarters, hs \in BoardScores :
       /\ IF pbp = <<>> THEN TRUE
          ELSE \/ g > pbp[Len(pbp)].id
               \/ g = pbp[Len(pbp)].id /\ q >= pbp[Len(pbp)].period /\ hs >= pbp[Len(pbp)].home_score
       /\ pbp' = Append(pbp, Play(g, home_team(g), 1, <<"Rush">>, q, hs, 0))
  /\ UNCHANGED <<drives, matchup, stage, inputs, requested, writes, raised, report, score_diffs, non_zero>>

\* the loader hands over the matchup row of one more game; the away line is
\* scoreless, with overtime slots where the home line has them
LoadMatchup ==
  /\ stage = "load"
  /\ \E g \in Games, home \in LineScores :
       /\ IF matchup = <<>> THEN TRUE ELSE g > matchup[Len(matchup)].id
       /\ matchup' = Append(matchup, Matchup(g, home, [q \in Quarters |-> IF home[q] = NaN THEN NaN ELSE Some(0)]))
  /\ UNCHANGED <<pbp, drives, stage, inputs, requested, writes, raised, report, score_diffs, non_zero>>

NonzeroScoreDiffs ==
  /\ stage = "load"
  /\ pbp # <<>>
  /\ IF missing_columns(pbp) # {}
     THEN /\ raised' = TRUE
          /\ stage' = "raised"
          /\ UNCHANGED <<score_diffs, non_zero>>
     ELSE /\ score_diffs' = compare_pbp_matchup(pbp, matchup)
          /\ non_zero' = nonzero_score_diffs(compare_pbp_matchup(pbp, matchup))
          /\ raised' = FALSE
          /\ stage' = "compared"
  /\ UNCHANGED <<pbp, drives, matchup, inputs, requested, writes, report>>

NextBoard == LoadBoardPlay \/ LoadMatchup \/ NonzeroScoreDiffs

SpecBoard == Init /\ [][NextBoard]_vars

\* ------------------------------------------- claims on the score repairer
\* the table handed to the latest call of fix_scores
Ran == inputs # <<>>
Input == inputs[Len(inputs)]

FlaggedRows(p) == {i \in Rows(p) : home_scores_to_check(p, i) \/ away_scores_to_check(p, i)}

FirstOrLastPlay(p, i) ==
  \/ i = 0
  \/ i = Len(p) - 1
  \/ At(p, i - 1).id # At(p, i).id
  \/ At(p, i + 1).id # At(p, i).id

InWindow(idx, i) == \E k \in 1 .. Len(idx) : idx[k] - 1 <= i /\ i <= idx[k] + 3

\* one home-score delta outside the valid set at row f, inside one game, the
\* score staying there on the next play and reaching a valid total two plays
\* later; no other row is flagged
SingleInjected(p) ==
  \E f \in Rows(p) :
    /\ FlaggedRows(p) = {f}
    /\ home_scores_to_check(p, f)
    /\ f >= 1
    /\ f + 3 <= Len(p) - 1
    /\ \A k \in (f - 1) .. (f + 3) : At(p, k).id = At(p, f).id
    /\ At(p, f + 1).home_score = At(p, f).home_score
    /\ (At(p, f + 2).home_score - At(p, f - 1).home_score) \in {2, 3, 6, 7, 8}
    /\ At(p, f + 3).home_score = At(p, f + 2).home_score

WrittenHome(w) == [k \in 1 .. Len(w.labels) |-> At(Input, w.labels[k]).home_score]
WrittenAway(w) == [k \in 1 .. Len(w.labels) |-> At(Input, w.labels[k]).away_score]

\* C1: after fix_scores on a table with a single injected invalid delta the
\* window holds its mode, no invalid delta remains, and a second run of
\* fix_scores on the output changes nothing.
C1_SingleInvalidDeltaRepaired ==
  /\ (stage = "fixed" /\ SingleInjected(inputs[1]))
       => /\ Len(writes) = 1
          /\ FlaggedRows(pbp) = {}
  /\ (stage = "refixed" /\ SingleInjected(inputs[1])) => pbp = inputs[2]

\* C2: a flagged first or last play of a game is never the centre of a
\* window, and no label before the first or past the last row is requested.
C2_BoundaryPlaysExcluded ==
  Ran => /\ \A k \in 1 .. Len(requested) : requested[k] \in Rows(Input)
         /\ \A item \in Range(scores_index(Input)) : ~FirstOrLastPlay(Input, item)

\* C8: the five rows of every window repaired by fix_scores carry one game id.
C8_WindowWithinOneGame ==
  stage = "fixed" =>
    \A n \in 1 .. Len(writes) :
      \A a, b \in Range(writes[n].labels) : At(Input, a).id = At(Input, b).id

KickoffPlay(pl) == pl.play_type[1] = "Kickoff"
OffenseOf(r, side) == (side = "home" /\ r.offense = r.home_team) \/ (side = "away" /\ r.offense = r.away_team)

\* the drive ids of a side's offence in a game: non-kickoff plays, kickoff
\* plays, drive-chart rows
PbpIds(g, side) ==
  {pbp[k].drive_id : k \in {j \in 1 .. Len(pbp) : pbp[j].id = g /\ OffenseOf(pbp[j], side) /\ ~KickoffPlay(pbp[j])}}
KickoffIds(g, side) ==
  {pbp[k].drive_id : k \in {j \in 1 .. Len(pbp) : pbp[j].id = g /\ OffenseOf(pbp[j], side) /\ KickoffPlay(pbp[j])}}
DcIds(g, side) ==
  {drives[k].drive_id : k \in {j \in 1 .. Len(drives) : drives[j].id = g /\ OffenseOf(drives[j], side)}}
PbpGames == {pbp[k].id : k \in 1 .. Len(pbp)}
DcGames == {drives[k].id : k \in 1 .. Len(drives)}

ReportRows(g, side) == {n \in 1 .. Len(report) : report[n].id = g /\ report[n].side = side}

Reconciled(g, side) ==
  /\ Cardinality(ReportRows(g, side)) = 1
  /\ \A n \in ReportRows(g, side) :
       /\ report[n].difference = Some(0)
       /\ report[n].extra_pbp_drives = NaN
       /\ report[n].extra_dc_drives = NaN

C4_KickoffsNeverCounted ==
  [][ /\ stage' = "reported" =>
           \A n \in 1 .. Len(report') :
             /\ report'[n].pbp_drives = Some(Cardinality(PbpIds(report'[n].id, report'[n].side)))
             /\ \A d \in KickoffIds(report'[n].id, report'[n].side) \ PbpIds(report'[n].id, report'[n].side) :
                  <<d>> \notin report'[n].pbp_drive_id[1]
      /\ (Len(pbp') = Len(pbp) + 1 /\ KickoffPlay(pbp'[Len(pbp')])) =>
           \A side \in Sides : get_drive_counts(side, pbp', drives') = get_drive_counts(side, pbp, drives)
    ]_vars

C4_Witness ==
  /\ stage = "reported"
  /\ \E n \in 1 .. Len(report) :
       KickoffIds(report[n].id, report[n].side) \ PbpIds(report[n].id, report[n].side) # {}

\* C5: a game held by one of the two tables only still has a report row for
\* each side that has drives there, with null counts for the table lacking it.
C5_OneSourceGamesReported ==
  stage = "reported" =>
    \A g \in PbpGames \cup DcGames, side \in Sides :
      (PbpIds(g, side) # {} \/ DcIds(g, side) # {}) =>
        /\ ReportRows(g, side) # {}
        /\ \A n \in ReportRows(g, side) :
             /\ g \notin DcGames => report[n].drive_chart_drives = NaN
             /\ g \notin PbpGames => report[n].pbp_drives = NaN

\* -------------------------------------- claims on the scoreboard checker
BoardRan == stage \in {"compared", "raised"}
BoardGames == {pbp[k].id : k \in 1 .. Len(pbp)}
Played(g) == {pbp[k].period : k \in {j \in 1 .. Len(pbp) : pbp[j].id = g}}
HasMatchup(g) == \E k \in 1 .. Len(matchup) : matchup[k].id = g
MatchupOf(g) == matchup[CHOOSE k \in 1 .. Len(matchup) : matchup[k].id = g]

\* the PBP score of a side at the last play of period q of game g
EndScore(g, side, q) ==
  LET last == CHOOSE i \in 1 .. Len(pbp) :
                /\ pbp[i].id = g /\ pbp[i].period = q
                /\ \A j \in (i + 1) .. Len(pbp) : ~(pbp[j].id = g /\ pbp[j].period = q)
  IN  IF side = "home" THEN pbp[last].home_score ELSE pbp[last].away_score

\* the sum of the matchup line scores of quarters 1..q, a null slot adding 0
RECURSIVE LineSum(_, _)
LineSum(line, q) == IF q = 0 THEN 0 ELSE (IF line[q] = <<>> THEN 0 ELSE line[q][1]) + LineSum(line, q - 1)
LineOf(g, side) == IF side = "home" THEN MatchupOf(g).home_line_scores ELSE MatchupOf(g).away_line_scores

Differs(g) == \E side \in Sides, q \in Played(g) : EndScore(g, side, q) # LineSum(LineOf(g, side), q)

\* every game of the PBP table has a matchup row and plays in quarters 1 to 4
Regular ==
  \A g \in BoardGames : HasMatchup(g) /\ (1 .. 4) \subseteq Played(g)

Reported == {non_zero[n].id : n \in 1 .. Len(non_zero)}

\* C6: a game without period-5 plays whose quarter 1-4 scores agree with the
\* matchup is never in nonzero_score_diffs, and the comparison completes,
\* also when no game of the table has a period 5.
C6_NoOvertimeNeverReported ==
  (BoardRan /\ Regular) =>
    /\ ~raised
    /\ \A g \in BoardGames : (5 \notin Played(g) /\ ~Differs(g)) => g \notin Reported

\* C7: nonzero_score_diffs returns exactly the games in which, for some side
\* and some played quarter, the PBP score at the end of the quarter differs
\* from the sum of the matchup line scores up to that quarter.
C7_ExactlyDifferingGames ==
  (BoardRan /\ Regular) =>
    /\ ~raised
    /\ Reported = {g \in BoardGames : Differs(g)}

====
